---------------------------- MODULE Spec2Model ----------------------------
(***************************************************************************)
(* A model of robust_agent_101: the SQLite conversation memory              *)
(* (src/src/memory.py), the guardrail filters (src/src/guardrails.py), the  *)
(* remote tool channel (src/src/mcp_tools.py, src/mcp/client.py) and the    *)
(* LangGraph turn pipeline (src/src/agent.py, src/src/helpers.py).          *)
(*                                                                         *)
(* Texts are tuples of one-character strings.  A canned message of the      *)
(* program is a tuple that starts with one bracketed label symbol.          *)
(***************************************************************************)
EXTENDS Integers, Sequences, FiniteSets, TLC

VARIABLES
    rows,        \* chat_messages: the table's rows, in insertion (id) order
    seq_id,      \* the AUTOINCREMENT counter: the largest id ever given
    session_id,  \* memory.session_id: the session the instance targets
    now,         \* CURRENT_TIMESTAMP, in whole seconds
    op,          \* the memory call made last, with its arguments
    ret,         \* what the memory call made last returned
    ret_ids,     \* the ids of the rows the last load_history returned, in order
    state,       \* the graph state of the turn in progress (MessagesState)
    pc,          \* the node about to run; "idle", "END" or "except" between turns
    next_id,     \* the next message object of the turn
    turns,       \* turns started
    rounds,      \* llm_call_node runs of the turn in progress
    trace,       \* the nodes the turn has run, in order
    raw_input,   \* the text run_agent was called with
    hydrated,    \* what load_history returned to the turn
    rows0,       \* the table when the turn began
    reply,       \* the content of the response the model gave last in the turn
    result,      \* what run_agent returned: "result" or "None" ("pending" meanwhile)
    mcp_session, \* mcp_client.session: "None", "created" or "initialized"
    mcp_open,    \* transports to the tool server entered and not closed
    mcp_connects,\* calls of mcp_client.connect() so far
    mcp_calls,   \* remote tool calls so far
    mcp_last     \* the remote tool call made last: what happened and what came back

mem_vars == <<rows, seq_id, session_id, now>>
api_vars == <<op, ret, ret_ids>>
turn_vars == <<state, pc, next_id, turns, rounds, trace, raw_input, hydrated,
               rows0, reply, result>>
mcp_vars == <<mcp_session, mcp_open, mcp_connects, mcp_calls, mcp_last>>
vars == <<rows, seq_id, session_id, now, op, ret, ret_ids, state, pc, next_id,
          turns, rounds, trace, raw_input, hydrated, rows0, reply, result,
          mcp_session, mcp_open, mcp_connects, mcp_calls, mcp_last>>

-----------------------------------------------------------------------------
(* Bounds of the model *)

MaxRows == 3        \* rows ever inserted into the table
MaxClock == 2       \* seconds the clock may advance
MaxLimit == 2       \* largest explicit limit given to load_history
window_size == 1    \* SQLiteMemory(window_size=...): turns per window
MaxTurns == 2       \* turns run_agent is called for
MaxRounds == 2      \* llm_call_node runs in one turn
MaxToolCalls == 2   \* tool calls one model response may carry
MaxCalls == 3       \* remote tool calls made
MaxLen == 5         \* characters of a text given to a guardrail filter
MaxLoopRounds == 3  \* rounds in which the tool-hungry model asks for a tool

Sessions == {"s1", "s2"}
\* the text of the i-th message appended through the memory API: every
\* append carries a text of its own, as in src/test_memory.py
Content(i) == [j \in 1..i |-> "m"]
None == "None"

-----------------------------------------------------------------------------
(* Helpers on sequences *)

Min(a, b) == IF a <= b THEN a ELSE b

Reverse(s) == [i \in 1..Len(s) |-> s[Len(s) + 1 - i]]

Take(s, n) == SubSeq(s, 1, Min(n, Len(s)))

SeqRange(s) == {s[i] : i \in 1..Len(s)}

IsSuffix(t, s) ==
    /\ Len(t) <= Len(s)
    /\ t = SubSeq(s, Len(s) - Len(t) + 1, Len(s))

-----------------------------------------------------------------------------
(* src/src/memory.py *)

\* SELECT ... WHERE session_id = ?: the session's rows, in id order
SessionRows(tbl, sess) == SelectSeq(tbl, LAMBDA r : r.session_id = sess)

\* ORDER BY timestamp DESC: every order of the rows with non-increasing
\* timestamps.  The statement names no second sort key, so rows of one
\* second come in whatever order the query plan yields.
RECURSIVE OrderByTimestampDesc(_)
OrderByTimestampDesc(S) ==
    IF S = {} THEN {<<>>}
    ELSE UNION {{<<r>> \o t : t \in OrderByTimestampDesc(S \ {r})} :
                  r \in {x \in S : \A y \in S : y.timestamp <= x.timestamp}}

\* an INSERT that evicts what lies beyond the window: the session keeps
\* its newest window_size * 2 rows
InsertRowEvicting(tbl, id, sess, type, content, ts) ==
    LET all == Append(tbl, [id |-> id, session_id |-> sess, type |-> type,
                            content |-> content, timestamp |-> ts])
        mine == {i \in 1..Len(all) : all[i].session_id = sess}
        keep == {i \in mine :
                    Cardinality({j \in mine : j > i}) < window_size * 2}
        kept == SelectSeq([i \in 1..Len(all) |-> [r |-> all[i], i |-> i]],
                          LAMBDA x : x.i \notin mine \/ x.i \in keep)
    IN  [k \in 1..Len(kept) |-> kept[k].r]

\* INSERT INTO chat_messages (session_id, type, content): id and timestamp
\* are the column defaults
InsertRow(tbl, id, sess, type, content, ts) ==
    Append(tbl, [id |-> id, session_id |-> sess, type |-> type,
                 content |-> content, timestamp |-> ts])

\* the message object load_history builds from a row
RowMessage(r) == [type |-> IF r.type = "human" THEN "human" ELSE "ai",
                  content |-> r.content]

\* QueryLimit without the doubling: one message per turn
QueryLimitPerTurn(limit) == IF limit = <<>> THEN window_size ELSE limit[1]

\* the LIMIT of load_history's SELECT; limit is <<>> when the caller omits
\* it (limit=None) and <<n>> when the caller gives n
QueryLimit(limit) == (IF limit = <<>> THEN window_size ELSE limit[1]) * 2

\* load_history: the rows fetched under one order of the result set,
\* reversed
LoadRows(tbl, sess, limit, order) == Reverse(Take(order, QueryLimit(limit)))

load_history(tbl, sess, limit, order) ==
    [i \in 1..Len(LoadRows(tbl, sess, limit, order)) |->
        RowMessage(LoadRows(tbl, sess, limit, order)[i])]

\* get_message_count without the WHERE clause
get_message_count_AllSessions(tbl, sess) == Len(tbl)

get_message_count(tbl, sess) == Len(SessionRows(tbl, sess))

\* clear_all: DELETE FROM chat_messages
clear_all(tbl, sess) == <<>>

\* clear: DELETE FROM chat_messages WHERE session_id = ?
clear(tbl, sess) == SelectSeq(tbl, LAMBDA r : r.session_id # sess)

\* GROUP BY session_id with COUNT(*), MIN(timestamp), MAX(timestamp): one
\* row per session_id that occurs in the table
GroupBySession(tbl) ==
    {[session_id |-> s,
      msg_count |-> Len(SessionRows(tbl, s)),
      first_msg |-> CHOOSE t \in {tbl[i].timestamp : i \in 1..Len(tbl)} :
                      /\ \E i \in 1..Len(tbl) :
                            tbl[i].session_id = s /\ tbl[i].timestamp = t
                      /\ \A i \in 1..Len(tbl) :
                            tbl[i].session_id = s => t <= tbl[i].timestamp,
      last_msg |-> CHOOSE t \in {tbl[i].timestamp : i \in 1..Len(tbl)} :
                      /\ \E i \in 1..Len(tbl) :
                            tbl[i].session_id = s /\ tbl[i].timestamp = t
                      /\ \A i \in 1..Len(tbl) :
                            tbl[i].session_id = s => tbl[i].timestamp <= t] :
        s \in {tbl[i].session_id : i \in 1..Len(tbl)}}

\* ORDER BY last_msg ASC
RECURSIVE OrderByLastMsgAsc(_)
OrderByLastMsgAsc(S) ==
    IF S = {} THEN {<<>>}
    ELSE UNION {{<<r>> \o t : t \in OrderByLastMsgAsc(S \ {r})} :
                  r \in {x \in S : \A y \in S : x.last_msg <= y.last_msg}}

\* ORDER BY last_msg DESC: every order with non-increasing last_msg
RECURSIVE OrderByLastMsgDesc(_)
OrderByLastMsgDesc(S) ==
    IF S = {} THEN {<<>>}
    ELSE UNION {{<<r>> \o t : t \in OrderByLastMsgDesc(S \ {r})} :
                  r \in {x \in S : \A y \in S : y.last_msg <= x.last_msg}}

\* list_sessions sorting the oldest activity first
list_sessions_Ascending(tbl) == OrderByLastMsgAsc(GroupBySession(tbl))

\* list_sessions: the results its SELECT may fetch
list_sessions(tbl) == OrderByLastMsgDesc(GroupBySession(tbl))

-----------------------------------------------------------------------------
(* src/src/guardrails.py.  The rule lists and limits come from            *)
(* config/rai.yaml; the model fixes small ones.                           *)

MAX_INPUT_LENGTH == 4
MIN_INPUT_LENGTH == 2
MAX_OUTPUT_LENGTH == 3

ProfanityWords == {<<"b">>}     \* RAI_CONFIG['profanity_patterns']
CodePatterns == {<<"<">>, <<"n", " ", "t">>}   \* RAI_CONFIG['code_patterns']
NEGATIVE_WORDS == {<<"n">>}
SENSITIVE_TOPICS == {<<"t">>}
VAGUE_RESPONSES == {<<"a">>}

\* str.strip() and str.split() treat every whitespace character alike
IsSpace(c) == c \in {" ", "\t"}

\* \w of the regular expressions
IsWordChar(c) == c \in {"a", "b", "B", "n", "t"}

\* str.lower() and re.IGNORECASE
LowerChar(c) == IF c = "B" THEN "b" ELSE c

lower(t) == [i \in 1..Len(t) |-> LowerChar(t[i])]

strip(t) ==
    LET keep == {i \in 1..Len(t) : ~IsSpace(t[i])}
    IN  IF keep = {} THEN <<>>
        ELSE SubSeq(t, CHOOSE i \in keep : \A j \in keep : i <= j,
                       CHOOSE i \in keep : \A j \in keep : j <= i)

\* ' '.join(s.split()) for a stripped s, from position i on
RECURSIVE JoinSplitFrom(_, _)
JoinSplitFrom(s, i) ==
    IF i > Len(s) THEN <<>>
    ELSE IF IsSpace(s[i])
         THEN (IF IsSpace(s[i - 1]) THEN <<>> ELSE <<" ">>) \o JoinSplitFrom(s, i + 1)
         ELSE <<s[i]>> \o JoinSplitFrom(s, i + 1)

\* p occurs in t at position i
OccursAt(p, t, i) ==
    /\ i + Len(p) - 1 <= Len(t)
    /\ SubSeq(t, i, i + Len(p) - 1) = p

\* the Python test: p in t
Contains(t, p) == \E i \in 1..(Len(t) + 1) : OccursAt(p, t, i)

\* PROFANITY.search(t): \b(word)\b, ignoring case
PROFANITY_search(t) ==
    \E w \in ProfanityWords : \E i \in 1..Len(t) :
        /\ OccursAt(w, lower(t), i)
        /\ (i = 1 \/ ~IsWordChar(t[i - 1]))
        /\ (i + Len(w) - 1 = Len(t) \/ ~IsWordChar(t[i + Len(w)]))

\* CODE_PATTERNS.search(t): (pattern), ignoring case
CODE_PATTERNS_search(t) == \E q \in CodePatterns : Contains(lower(t), q)

\* validate_input with the profanity check made before the length checks
validate_input_ProfanityFirst(input_text) ==
    IF PROFANITY_search(input_text)
    THEN [valid |-> FALSE, result |-> <<"[Input contains inappropriate language]">>]
    ELSE IF Len(input_text) > MAX_INPUT_LENGTH
    THEN [valid |-> FALSE, result |-> <<"[Input too long]">>]
    ELSE IF strip(input_text) = <<>> \/ Len(strip(input_text)) < MIN_INPUT_LENGTH
    THEN [valid |-> FALSE, result |-> <<"[Input is empty or too short]">>]
    ELSE IF CODE_PATTERNS_search(input_text)
    THEN [valid |-> FALSE, result |-> <<"[Input contains potentially harmful code]">>]
    ELSE [valid |-> TRUE, result |-> JoinSplitFrom(strip(input_text), 1)]

validate_input(input_text) ==
    IF Len(input_text) > MAX_INPUT_LENGTH
    THEN [valid |-> FALSE, result |-> <<"[Input too long]">>]
    ELSE IF strip(input_text) = <<>> \/ Len(strip(input_text)) < MIN_INPUT_LENGTH
    THEN [valid |-> FALSE, result |-> <<"[Input is empty or too short]">>]
    ELSE IF PROFANITY_search(input_text)
    THEN [valid |-> FALSE, result |-> <<"[Input contains inappropriate language]">>]
    ELSE IF CODE_PATTERNS_search(input_text)
    THEN [valid |-> FALSE, result |-> <<"[Input contains potentially harmful code]">>]
    ELSE [valid |-> TRUE, result |-> JoinSplitFrom(strip(input_text), 1)]

\* validate_output with the negative tone check made before the profanity
\* check
validate_output_NegativeFirst(response, input_text) ==
    IF Len(response) > MAX_OUTPUT_LENGTH
    THEN [valid |-> FALSE,
          result |-> <<"[Response too long; shortened: ]">>
                       \o SubSeq(response, 1, MAX_OUTPUT_LENGTH)]
    ELSE IF \E w \in NEGATIVE_WORDS : Contains(lower(response), w)
    THEN [valid |-> FALSE, result |-> <<"[Response contains negative tone]">>]
    ELSE IF PROFANITY_search(response)
    THEN [valid |-> FALSE, result |-> <<"[Response contains inappropriate language]">>]
    ELSE IF \E w \in SENSITIVE_TOPICS : Contains(lower(response), w)
    THEN [valid |-> FALSE, result |-> <<"[Response touches on sensitive topics]">>]
    ELSE IF strip(lower(response)) \in VAGUE_RESPONSES
    THEN [valid |-> FALSE, result |-> <<"[I need more context to answer clearly]">>]
    ELSE [valid |-> TRUE, result |-> response]

\* validate_output with a slice one character short
validate_output_ShortSlice(response, input_text) ==
    IF Len(response) > MAX_OUTPUT_LENGTH
    THEN [valid |-> FALSE,
          result |-> <<"[Response too long; shortened: ]">>
                       \o SubSeq(response, 1, MAX_OUTPUT_LENGTH - 1)]
    ELSE IF PROFANITY_search(response)
    THEN [valid |-> FALSE, result |-> <<"[Response contains inappropriate language]">>]
    ELSE IF \E w \in NEGATIVE_WORDS : Contains(lower(response), w)
    THEN [valid |-> FALSE, result |-> <<"[Response contains negative tone]">>]
    ELSE IF \E w \in SENSITIVE_TOPICS : Contains(lower(response), w)
    THEN [valid |-> FALSE, result |-> <<"[Response touches on sensitive topics]">>]
    ELSE IF strip(lower(response)) \in VAGUE_RESPONSES
    THEN [valid |-> FALSE, result |-> <<"[I need more context to answer clearly]">>]
    ELSE [valid |-> TRUE, result |-> response]

validate_output(response, input_text) ==
    IF Len(response) > MAX_OUTPUT_LENGTH
    THEN [valid |-> FALSE,
          result |-> <<"[Response too long; shortened: ]">>
                       \o SubSeq(response, 1, MAX_OUTPUT_LENGTH)]
    ELSE IF PROFANITY_search(response)
    THEN [valid |-> FALSE, result |-> <<"[Response contains inappropriate language]">>]
    ELSE IF \E w \in NEGATIVE_WORDS : Contains(lower(response), w)
    THEN [valid |-> FALSE, result |-> <<"[Response contains negative tone]">>]
    ELSE IF \E w \in SENSITIVE_TOPICS : Contains(lower(response), w)
    THEN [valid |-> FALSE, result |-> <<"[Response touches on sensitive topics]">>]
    ELSE IF strip(lower(response)) \in VAGUE_RESPONSES
    THEN [valid |-> FALSE, result |-> <<"[I need more context to answer clearly]">>]
    ELSE [valid |-> TRUE, result |-> response]

-----------------------------------------------------------------------------
(* The memory API called directly, as src/test_memory.py does *)

MemInit ==
    /\ rows = <<>>
    /\ seq_id = 0
    /\ session_id \in Sessions
    /\ now = 0

ApiInit ==
    /\ op = [name |-> "init"]
    /\ ret = None
    /\ ret_ids = <<>>

TurnInit ==
    /\ state = [messages |-> <<>>]
    /\ pc = "idle"
    /\ next_id = 1
    /\ turns = 0
    /\ rounds = 0
    /\ trace = <<>>
    /\ raw_input = <<>>
    /\ hydrated = <<>>
    /\ rows0 = <<>>
    /\ reply = <<>>
    /\ result = "pending"

\* mcp_client = MCPClient(): no session, nothing connected
McpInit ==
    /\ mcp_session = "None"
    /\ mcp_open = 0
    /\ mcp_connects = 0
    /\ mcp_calls = 0
    /\ mcp_last = [name |-> "none"]

MemSpecInit == MemInit /\ ApiInit /\ TurnInit /\ McpInit

\* add_user_message / add_ai_message
AddMessage(type) ==
    \E c \in {Content(seq_id + 1)}, dt \in 0..1 :
        /\ seq_id < MaxRows
        /\ now + dt <= MaxClock
        /\ now' = now + dt
        /\ seq_id' = seq_id + 1
        /\ rows' = InsertRow(rows, seq_id + 1, session_id, type, c, now + dt)
        /\ op' = [name |-> "add", type |-> type, content |-> c]
        /\ ret' = None
        /\ ret_ids' = <<>>
        /\ UNCHANGED <<session_id, turn_vars, mcp_vars>>

add_user_message == AddMessage("human")

add_ai_message == AddMessage("ai")

LoadHistory ==
    \E limit \in {<<>>} \cup {<<n>> : n \in 0..MaxLimit} :
      \E order \in OrderByTimestampDesc(SeqRange(SessionRows(rows, session_id))) :
        /\ op' = [name |-> "load_history", limit |-> limit]
        /\ ret' = load_history(rows, session_id, limit, order)
        /\ ret_ids' = [i \in 1..Len(LoadRows(rows, session_id, limit, order)) |->
                         LoadRows(rows, session_id, limit, order)[i].id]
        /\ UNCHANGED <<mem_vars, turn_vars, mcp_vars>>

GetMessageCount ==
    /\ op' = [name |-> "get_message_count"]
    /\ ret' = get_message_count(rows, session_id)
    /\ ret_ids' = <<>>
    /\ UNCHANGED <<mem_vars, turn_vars, mcp_vars>>

Clear ==
    /\ rows' = clear(rows, session_id)
    /\ op' = [name |-> "clear"]
    /\ ret' = None
    /\ ret_ids' = <<>>
    /\ UNCHANGED <<seq_id, session_id, now, turn_vars, mcp_vars>>

ListSessions ==
    \E sessions \in list_sessions(rows) :
        /\ op' = [name |-> "list_sessions"]
        /\ ret' = sessions
        /\ ret_ids' = <<>>
        /\ UNCHANGED <<mem_vars, turn_vars, mcp_vars>>

switch_session ==
    \E s \in Sessions :
        /\ session_id' = s
        /\ op' = [name |-> "switch_session"]
        /\ ret' = None
        /\ ret_ids' = <<>>
        /\ UNCHANGED <<rows, seq_id, now, turn_vars, mcp_vars>>

MemNext ==
    \/ add_user_message
    \/ add_ai_message
    \/ LoadHistory
    \/ GetMessageCount
    \/ Clear
    \/ ListSessions
    \/ switch_session

MemSpec == MemSpecInit /\ [][MemNext]_vars

-----------------------------------------------------------------------------
(* Messages and the graph state (src/src/agent.py:5-6, 196)               *)
(*                                                                         *)
(* A message object carries the id add_messages knows it by: the reducer   *)
(* gives every object without an id a fresh one, so the id stands for the  *)
(* object.  tool_call_id is <<>> on a message that answers no tool call.   *)

HumanMessage(id, content) ==
    [id |-> id, type |-> "human", content |-> content,
     tool_calls |-> <<>>, tool_call_id |-> <<>>]

AIMessage(id, content, tool_calls) ==
    [id |-> id, type |-> "ai", content |-> content,
     tool_calls |-> tool_calls, tool_call_id |-> <<>>]

ToolMessage(id, content, tool_call_id) ==
    [id |-> id, type |-> "tool", content |-> content,
     tool_calls |-> <<>>, tool_call_id |-> tool_call_id]

SystemMessage(content) ==
    [id |-> 0, type |-> "system", content |-> content,
     tool_calls |-> <<>>, tool_call_id |-> <<>>]

\* add_messages, one message of the update: a message whose id the list
\* holds replaces that entry, any other message is appended
MergeMessage(merged, m) ==
    IF \E i \in 1..Len(merged) : merged[i].id = m.id
    THEN [merged EXCEPT ![CHOOSE i \in 1..Len(merged) : merged[i].id = m.id] = m]
    ELSE Append(merged, m)

\* add_messages: the reducer of MessagesState's messages channel
RECURSIVE add_messages(_, _)
add_messages(left, right) ==
    IF right = <<>> THEN left
    ELSE CHOOSE r \in {add_messages(m, t) : m \in {MergeMessage(left, Head(right))},
                                            t \in {Tail(right)}} : TRUE

\* A node's update written to the graph state.  The graph is
\* StateGraph(MessagesState): messages is its only channel, and a key of
\* the update that names no channel is not written.  inplace is the
\* channel's list as the node left it (a node that assigns into
\* state["messages"] changes the list the reducer then merges into).
WriteUpdate(inplace, update) ==
    [messages |-> IF "messages" \in DOMAIN update
                  THEN add_messages(inplace, update.messages)
                  ELSE inplace]

LastOf(seq) == seq[Len(seq)]

-----------------------------------------------------------------------------
(* src/src/agent.py: the nodes and the routing functions *)

tools_by_name == {"Calculator", "StockQuote", "WebSearch", "ASCIIArt"}

validate_input_node(st, id) ==
    LET messages == st.messages
        last_message == LastOf(messages)
        v == validate_input(last_message.content)
        sanitized == [messages EXCEPT ![Len(messages)] = HumanMessage(id, v.result)]
    IN  IF last_message.type = "human"
        THEN IF ~v.valid
             THEN [inplace |-> messages,
                   update |-> [messages |->
                                 <<AIMessage(id, <<"[Input validation failed: ]">>
                                                   \o v.result, <<>>)>>,
                               input_valid |-> FALSE]]
             ELSE [inplace |-> sanitized,
                   update |-> [messages |-> sanitized, input_valid |-> TRUE]]
        ELSE [inplace |-> messages,
              update |-> [messages |-> messages, input_valid |-> TRUE]]

\* the objects load_history builds, the first of them being object id
HistoryObjects(history, id) ==
    [i \in 1..Len(history) |->
        IF history[i].type = "human"
        THEN HumanMessage(id + i - 1, history[i].content)
        ELSE AIMessage(id + i - 1, history[i].content, <<>>)]

load_memory_node(st, history) ==
    [inplace |-> st.messages,
     update |-> [messages |-> IF history # <<>>
                              THEN history \o st.messages
                              ELSE st.messages]]

system_prompt == SystemMessage(<<"[system prompt]">>)

messages_to_send(st) == <<system_prompt>> \o st.messages

llm_call_node(st, response) ==
    [inplace |-> st.messages, update |-> [messages |-> <<response>>]]

\* tool_node's try/except around tool.invoke: out is what the call did
ToolResult(id, tool_call, out) ==
    IF out.raised
    THEN ToolMessage(id, <<"[Error executing tool: ]">> \o out.value, tool_call.id)
    ELSE ToolMessage(id, out.value, tool_call.id)

\* tool_node; tools_by_name[tool_name] is looked up outside the try, so a
\* name the registry lacks raises KeyError out of the node
tool_node(st, outs, id) ==
    LET tool_calls == LastOf(st.messages).tool_calls
    IN  IF \E i \in 1..Len(tool_calls) : tool_calls[i].name \notin tools_by_name
        THEN [raised |-> TRUE, inplace |-> st.messages,
              update |-> [messages |-> <<>>]]
        ELSE [raised |-> FALSE, inplace |-> st.messages,
              update |-> [messages |->
                            [i \in 1..Len(tool_calls) |->
                                ToolResult(id + i - 1, tool_calls[i], outs[i])]]]

\* the content of the last HumanMessage, "" when there is none
LastHumanContent(messages) ==
    LET H == {i \in 1..Len(messages) : messages[i].type = "human"}
    IN  IF H = {} THEN <<>>
        ELSE messages[CHOOSE i \in H : \A j \in H : j <= i].content

\* validate_output_node building a new list instead of assigning into
\* state["messages"]
validate_output_node_NewList(st, id) ==
    LET messages == st.messages
        last_message == LastOf(messages)
        v == validate_output(last_message.content, LastHumanContent(messages))
        validated == [messages EXCEPT ![Len(messages)] = AIMessage(id, v.result, <<>>)]
    IN  IF last_message.type = "ai" /\ last_message.tool_calls = <<>> /\ ~v.valid
        THEN [inplace |-> messages, update |-> [messages |-> validated]]
        ELSE [inplace |-> messages, update |-> [messages |-> messages]]

validate_output_node(st, id) ==
    LET messages == st.messages
        last_message == LastOf(messages)
        v == validate_output(last_message.content, LastHumanContent(messages))
        validated == [messages EXCEPT ![Len(messages)] = AIMessage(id, v.result, <<>>)]
    IN  IF last_message.type = "ai" /\ last_message.tool_calls = <<>> /\ ~v.valid
        THEN [inplace |-> validated, update |-> [messages |-> validated]]
        ELSE [inplace |-> messages, update |-> [messages |-> messages]]

\* save_memory_node's loop: the content of the first message of the kind
\* whose content is not empty, <<>> when there is none (the loop keeps
\* looking while what it holds is None or "")
FirstTruthy(messages, kinds, with_tool_calls) ==
    LET K == {i \in 1..Len(messages) :
                 /\ messages[i].type \in kinds
                 /\ (with_tool_calls \/ messages[i].tool_calls = <<>>)
                 /\ messages[i].content # <<>>}
    IN  IF K = {} THEN <<>>
        ELSE messages[CHOOSE i \in K : \A j \in K : i <= j].content

save_user_message(st) == FirstTruthy(st.messages, {"human"}, TRUE)

save_ai_message(st) == FirstTruthy(st.messages, {"ai"}, FALSE)

\* save_memory_node: the table after its appends; t1 and t2 are the
\* seconds the two INSERTs run at
save_memory_node(st, tbl, id, sess, t1, t2) ==
    LET user_message == save_user_message(st)
        ai_message == save_ai_message(st)
        tbl1 == IF user_message # <<>>
                THEN InsertRow(tbl, id + 1, sess, "human", user_message, t1)
                ELSE tbl
        id1 == IF user_message # <<>> THEN id + 1 ELSE id
    IN  [rows |-> IF ai_message # <<>>
                  THEN InsertRow(tbl1, id1 + 1, sess, "ai", ai_message, t2)
                  ELSE tbl1,
         inplace |-> st.messages,
         update |-> [messages |-> st.messages]]

should_continue_after_validation(st) ==
    IF "input_valid" \in DOMAIN st /\ ~st.input_valid
    THEN "END"
    ELSE "load_memory"

\* should_continue_after_llm with a cap: a turn that has had one round of
\* tool calls goes to validate_output whatever the response carries
should_continue_after_llm_Capped(st) ==
    IF /\ LastOf(st.messages).tool_calls # <<>>
       /\ \A i \in 1..(Len(st.messages) - 1) : st.messages[i].type # "tool"
    THEN "tool_node"
    ELSE "validate_output"

\* should_continue_after_llm sending every response to validate_output
should_continue_after_llm_NoTools(st) == "validate_output"

should_continue_after_llm(st) ==
    IF LastOf(st.messages).tool_calls # <<>>
    THEN "tool_node"
    ELSE "validate_output"

\* run_agent: the reply it prints, the content of the last AIMessage
\* without tool calls (<<>> when there is none)
final_reply(st) ==
    LET A == {i \in 1..Len(st.messages) :
                 st.messages[i].type = "ai" /\ st.messages[i].tool_calls = <<>>}
    IN  IF A = {} THEN <<>>
        ELSE st.messages[CHOOSE i \in A : \A j \in A : j <= i].content

-----------------------------------------------------------------------------
(* The turns: run_agent (src/src/helpers.py) driving the compiled graph,   *)
(* and the clear command of src/main.py                                    *)

\* what the user types
UserInputs == {<<"a", " ", " ", "a">>, <<"a", "a">>, <<"a", "a", "a", "a", "a">>}

\* what the model answers with when it requests no tool
ModelReplies == {<<>>, <<"a", "a">>, <<"b">>, <<"a", "a", "a", "a">>,
                 <<"b", " ", "a", "a">>}

\* the text beside the tool calls of a response that requests tools
ToolCallContents == {<<"a", "a">>}

\* the tool names the model may ask for: a local tool, a remote one, and
\* a name the registry does not hold
RequestedNames == {"Calculator", "StockQuote", "NoSuchTool"}

\* the tool calls of response id: call i has the identifier <<id, i>>
ToolCallLists(id) ==
    UNION {{[i \in 1..n |-> [name |-> f[i], id |-> <<id, i>>]] :
               f \in [1..n -> RequestedNames]} : n \in 1..MaxToolCalls}

\* what tool.invoke may do: return an observation or raise
ToolOutcomes == {[raised |-> FALSE, value |-> <<"[observation]">>],
                 [raised |-> TRUE, value |-> <<"[exception]">>]}

NoTurnRunning == pc \in {"idle", "END", "except"}

Init ==
    /\ rows = <<>>
    /\ seq_id = 0
    /\ session_id = "s1"
    /\ now = 0
    /\ ApiInit
    /\ TurnInit
    /\ McpInit

\* run_agent: agent.invoke({"messages": [HumanMessage(content=user_input)]})
RunAgent ==
    \E user_input \in UserInputs :
        /\ NoTurnRunning
        /\ turns < MaxTurns
        /\ state' = WriteUpdate(<<>>, [messages |-> <<HumanMessage(1, user_input)>>])
        /\ pc' = "validate_input"
        /\ next_id' = 2
        /\ turns' = turns + 1
        /\ rounds' = 0
        /\ trace' = <<>>
        /\ raw_input' = user_input
        /\ hydrated' = <<>>
        /\ rows0' = rows
        /\ reply' = <<>>
        /\ result' = "pending"
        /\ UNCHANGED <<mem_vars, api_vars, mcp_vars>>

ValidateInput ==
    LET r == validate_input_node(state, next_id)
        st == WriteUpdate(r.inplace, r.update)
    IN  /\ pc = "validate_input"
        /\ state' = st
        /\ next_id' = next_id + 1
        /\ trace' = Append(trace, "validate_input")
        /\ pc' = should_continue_after_validation(st)
        /\ result' = IF pc' = "END" THEN "result" ELSE result
        /\ UNCHANGED <<mem_vars, api_vars, mcp_vars, turns, rounds, raw_input, hydrated,
                       rows0, reply>>

LoadMemory ==
    /\ pc = "load_memory"
    /\ \E order \in OrderByTimestampDesc(SeqRange(SessionRows(rows, session_id))) :
          LET history == load_history(rows, session_id, <<>>, order)
              r == load_memory_node(state, HistoryObjects(history, next_id))
          IN  /\ state' = WriteUpdate(r.inplace, r.update)
              /\ next_id' = next_id + Len(history)
              /\ hydrated' = history
    /\ trace' = Append(trace, "load_memory")
    /\ pc' = "llm_call"
    /\ UNCHANGED <<mem_vars, api_vars, mcp_vars, turns, rounds, raw_input, rows0,
                   reply, result>>

\* the responses the model may give: a final answer, or tool calls while
\* the turn has rounds left
ModelResponses(id) ==
    {AIMessage(id, c, <<>>) : c \in ModelReplies}
    \cup (IF rounds + 1 < MaxRounds
          THEN {AIMessage(id, c, tc) : c \in ToolCallContents, tc \in ToolCallLists(id)}
          ELSE {})

\* LlmCall with a run_agent that returns a result when the model raises
LlmCall_ReturnsState ==
    /\ pc = "llm_call"
    /\ trace' = Append(trace, "llm_call")
    /\ rounds' = rounds + 1
    /\ \/ \E response \in ModelResponses(next_id) :
             LET r == llm_call_node(state, response)
                 st == WriteUpdate(r.inplace, r.update)
             IN  /\ state' = st
                 /\ next_id' = next_id + 1
                 /\ pc' = should_continue_after_llm(st)
                 /\ reply' = response.content
                 /\ UNCHANGED result
       \/ /\ pc' = "except"
          /\ result' = "result"
          /\ UNCHANGED <<state, next_id, reply>>
    /\ UNCHANGED <<mem_vars, api_vars, mcp_vars, turns, raw_input, hydrated, rows0>>

LlmCall ==
    /\ pc = "llm_call"
    /\ trace' = Append(trace, "llm_call")
    /\ rounds' = rounds + 1
    /\ \/ \E response \in ModelResponses(next_id) :
             LET r == llm_call_node(state, response)
                 st == WriteUpdate(r.inplace, r.update)
             IN  /\ state' = st
                 /\ next_id' = next_id + 1
                 /\ pc' = should_continue_after_llm(st)
                 /\ reply' = response.content
                 /\ UNCHANGED result
       \/ \* llm_with_tools.invoke raises: run_agent's except returns None
          /\ pc' = "except"
          /\ result' = "None"
          /\ UNCHANGED <<state, next_id, reply>>
    /\ UNCHANGED <<mem_vars, api_vars, mcp_vars, turns, raw_input, hydrated, rows0>>

ToolNode ==
    /\ pc = "tool_node"
    /\ \E outs \in [1..Len(LastOf(state.messages).tool_calls) -> ToolOutcomes] :
          LET r == tool_node(state, outs, next_id)
          IN  /\ trace' = Append(trace, "tool_node")
              /\ IF r.raised
                 THEN /\ pc' = "except"
                      /\ result' = "None"
                      /\ UNCHANGED <<state, next_id>>
                 ELSE /\ state' = WriteUpdate(r.inplace, r.update)
                      /\ next_id' = next_id + Len(r.update.messages)
                      /\ pc' = "llm_call"
                      /\ UNCHANGED result
    /\ UNCHANGED <<mem_vars, api_vars, mcp_vars, turns, rounds, raw_input, hydrated,
                   rows0, reply>>

ValidateOutput ==
    LET r == validate_output_node(state, next_id)
    IN  /\ pc = "validate_output"
        /\ state' = WriteUpdate(r.inplace, r.update)
        /\ next_id' = next_id + 1
        /\ trace' = Append(trace, "validate_output")
        /\ pc' = "save_memory"
        /\ UNCHANGED <<mem_vars, api_vars, mcp_vars, turns, rounds, raw_input, hydrated,
                       rows0, reply, result>>

SaveMemory ==
    /\ pc = "save_memory"
    /\ \E d1 \in 0..1, d2 \in 0..1 :
          LET t1 == Min(now + d1, MaxClock)
              t2 == Min(t1 + d2, MaxClock)
              r == save_memory_node(state, rows, seq_id, session_id, t1, t2)
          IN  /\ rows' = r.rows
              /\ seq_id' = seq_id + (Len(r.rows) - Len(rows))
              /\ now' = IF Len(r.rows) = Len(rows) THEN now
                        ELSE LastOf(r.rows).timestamp
              /\ state' = WriteUpdate(r.inplace, r.update)
    /\ trace' = Append(trace, "save_memory")
    /\ pc' = "END"
    /\ result' = "result"
    /\ UNCHANGED <<session_id, api_vars, mcp_vars, next_id, turns, rounds, raw_input,
                   hydrated, rows0, reply>>

\* main.py: the clear command, between turns
ClearCommand ==
    /\ NoTurnRunning
    /\ rows # <<>>
    /\ rows' = clear(rows, session_id)
    /\ pc' = "idle"
    /\ UNCHANGED <<seq_id, session_id, now, api_vars, mcp_vars, state, next_id,
                   turns, rounds, trace, raw_input, hydrated, rows0, reply, result>>

Next ==
    \/ RunAgent
    \/ ValidateInput
    \/ LoadMemory
    \/ LlmCall
    \/ ToolNode
    \/ ValidateOutput
    \/ SaveMemory
    \/ ClearCommand

Spec == Init /\ [][Next]_vars

\* agent.invoke runs the graph to its end in one call: a node that is due
\* runs.  Nothing makes the user start a turn or type the clear command.
Fairness ==
    /\ WF_vars(ValidateInput)
    /\ WF_vars(LoadMemory)
    /\ WF_vars(LlmCall)
    /\ WF_vars(ToolNode)
    /\ WF_vars(ValidateOutput)
    /\ WF_vars(SaveMemory)

LiveSpec == Spec /\ Fairness

-----------------------------------------------------------------------------
(* The turns with a model that keeps asking for tools *)

\* the responses of a model that asks for one tool in round after round:
\* a call of a tool the registry holds or of one it lacks, or at last an
\* answer
LoopingModelResponses(id) ==
    {AIMessage(id, <<"a", "a">>, <<>>)}
    \cup (IF rounds < MaxLoopRounds
          THEN {AIMessage(id, <<>>, <<[name |-> n, id |-> <<id, 1>>]>>) :
                   n \in {"Calculator", "NoSuchTool"}}
          ELSE {})

\* llm_call_node with that model
LoopLlmCall ==
    /\ pc = "llm_call"
    /\ trace' = Append(trace, "llm_call")
    /\ rounds' = rounds + 1
    /\ \/ \E response \in LoopingModelResponses(next_id) :
             LET r == llm_call_node(state, response)
                 st == WriteUpdate(r.inplace, r.update)
             IN  /\ state' = st
                 /\ next_id' = next_id + 1
                 /\ pc' = should_continue_after_llm(st)
                 /\ reply' = response.content
                 /\ UNCHANGED result
       \/ /\ pc' = "except"
          /\ result' = "None"
          /\ UNCHANGED <<state, next_id, reply>>
    /\ UNCHANGED <<mem_vars, api_vars, mcp_vars, turns, raw_input, hydrated, rows0>>

LoopNext ==
    \/ RunAgent
    \/ ValidateInput
    \/ LoadMemory
    \/ LoopLlmCall
    \/ ToolNode
    \/ ValidateOutput
    \/ SaveMemory

LoopSpec == Init /\ [][LoopNext]_vars

-----------------------------------------------------------------------------
(* The remote tool channel: src/src/mcp_tools.py and src/mcp/client.py     *)

\* the wrappers get_stock_tool, web_search_tool and generate_art_tool: the
\* tool each asks the server for and the timeout it passes, in seconds
RemoteTools ==
    [StockQuote |-> [tool_name |-> "get_stock", timeout |-> "15"],
     WebSearch  |-> [tool_name |-> "web_search", timeout |-> "20"],
     ASCIIArt   |-> [tool_name |-> "generate_art", timeout |-> "10"]]

\* what the awaits of MCPClient.connect (client.py:27, 33, 38) may do.
\* "stdio_raise"/"stdio_hang": stdio_client is not entered.
\* "session_raise": the transport is entered, then connect fails before
\* self.session is assigned.  "init_raise"/"init_hang": the session is
\* assigned and session.initialize() fails or does not return in time.
ConnectOutcomes == {"ok", "stdio_raise", "stdio_hang", "session_raise",
                    "init_raise", "init_hang"}

\* what session.list_tools() may do
ListOutcomes == {"ok", "raise", "hang"}

\* what MCPClient.call_tool may do: return a result whose first content
\* has a text, has none, or whose content is empty; raise (the server's
\* error, or json.dumps on the result); raise asyncio.TimeoutError; or
\* not return in time
CallOutcomes == {"text", "nontext", "empty", "raise", "timeout_error", "hang"}

ArgOutcomes == {"ok", "invalid"}

\* what one remote tool call may meet: an outcome for each await it
\* reaches (an await it does not reach is written "ok", a call_tool it
\* does not reach "text")
Outcomes(session) ==
    {o \in [args : ArgOutcomes, connect : ConnectOutcomes,
            list : ListOutcomes, call : CallOutcomes] :
        /\ (o.args = "invalid" \/ session # "None")
               => (o.connect = "ok" /\ o.list = "ok")
        /\ (o.args = "invalid" \/ o.connect # "ok" \/ o.list # "ok")
               => o.call = "text"
        /\ o.connect # "ok" => o.list = "ok"}

\* MCPClient.connect: the client afterwards
connect(client, o) ==
    [session |-> CASE o \in {"stdio_raise", "stdio_hang", "session_raise"} -> "None"
                   [] o \in {"init_raise", "init_hang"} -> "created"
                   [] OTHER -> "initialized",
     open |-> IF o \in {"stdio_raise", "stdio_hang"} THEN client.open
              ELSE client.open + 1,
     connects |-> client.connects + 1]

\* how an await ended: "ok", "raise", "timeout_error" or "hang"
Ending(o) ==
    CASE o \in {"stdio_raise", "session_raise", "init_raise", "raise"} -> "raise"
      [] o \in {"stdio_hang", "init_hang", "hang"} -> "hang"
      [] o = "timeout_error" -> "timeout_error"
      [] OTHER -> "ok"

\* the coroutine _call up to its return or its first failing await:
\* connect and list_tools run only while the client has no session
CallEnding(client, o) ==
    IF client.session = "None" /\ Ending(o.connect) # "ok" THEN Ending(o.connect)
    ELSE IF client.session = "None" /\ Ending(o.list) # "ok" THEN Ending(o.list)
    ELSE Ending(o.call)

TimeoutMarker(tool_name, timeout) ==
    <<"[Error: ", tool_name, " timed out after ", timeout, " seconds]">>

ErrorCalling(tool_name) == <<"[Error calling ", tool_name, "]">>

\* the text _call returns for a result call_tool returned
ResultText(o) ==
    CASE o = "text" -> <<"[result.content[0].text]">>
      [] o = "nontext" -> <<"[str(result.content)]">>
      [] OTHER -> <<"[str(result)]">>

\* sync_mcp_call without the handlers around run_until_complete: the
\* TimeoutError of wait_for leaves the function
sync_mcp_call_NoOuterHandler(tool_name, timeout, client, o) ==
    [value |-> CASE CallEnding(client, o) = "ok" -> ResultText(o.call)
                 [] CallEnding(client, o) = "raise" -> ErrorCalling(tool_name)
                 [] CallEnding(client, o) = "timeout_error" ->
                        TimeoutMarker(tool_name, timeout)
                 [] OTHER -> <<"[TimeoutError]">>,
     raised |-> CallEnding(client, o) = "hang",
     client |-> IF client.session = "None" THEN connect(client, o.connect)
                ELSE client]

\* sync_mcp_call: the value returned, whether an exception left the
\* function, and the client afterwards
sync_mcp_call(tool_name, timeout, client, o) ==
    [value |-> CASE CallEnding(client, o) = "ok" -> ResultText(o.call)
                 [] CallEnding(client, o) = "raise" -> ErrorCalling(tool_name)
                 [] OTHER -> TimeoutMarker(tool_name, timeout),
     raised |-> FALSE,
     client |-> IF client.session = "None" THEN connect(client, o.connect)
                ELSE client]

\* tool.invoke of a remote tool: the argument schema is checked, then the
\* wrapper calls sync_mcp_call
invoke_remote(name, client, o) ==
    IF o.args = "invalid"
    THEN [value |-> <<"[validation error]">>, raised |-> TRUE, client |-> client]
    ELSE sync_mcp_call(RemoteTools[name].tool_name, RemoteTools[name].timeout,
                       client, o)

Client == [session |-> mcp_session, open |-> mcp_open, connects |-> mcp_connects]

\* tool_node running one call of a remote tool
RemoteToolCall ==
    \E name \in DOMAIN RemoteTools, o \in Outcomes(mcp_session) :
        LET r == invoke_remote(name, Client, o)
            tool_call == [name |-> name, id |-> <<1, mcp_calls + 1>>]
        IN  /\ mcp_calls < MaxCalls
            /\ mcp_calls' = mcp_calls + 1
            /\ mcp_session' = r.client.session
            /\ mcp_open' = r.client.open
            /\ mcp_connects' = r.client.connects
            /\ mcp_last' = [name |-> name,
                            outcome |-> o,
                            session_before |-> mcp_session,
                            open_before |-> mcp_open,
                            connects_before |-> mcp_connects,
                            value |-> r.value,
                            raised |-> r.raised,
                            message |-> ToolResult(mcp_calls + 1, tool_call,
                                                   [raised |-> r.raised,
                                                    value |-> r.value])]
            /\ UNCHANGED <<mem_vars, api_vars, turn_vars>>

McpNext == RemoteToolCall

McpSpec == Init /\ [][McpNext]_vars

-----------------------------------------------------------------------------
(* The guardrail filters called directly on a text *)

\* the characters a text is made of
Alphabet == {"a", "b", "B", "n", "t", " ", "\t", "<"}

\* the texts of at most MaxLen characters
Texts == UNION {[1..n -> Alphabet] : n \in 0..MaxLen}

GuardInit ==
    /\ rows = <<>>
    /\ seq_id = 0
    /\ session_id = "s1"
    /\ now = 0
    /\ op \in {[name |-> "text", text |-> t] : t \in Texts}
    /\ ret = None
    /\ ret_ids = <<>>
    /\ TurnInit
    /\ McpInit

\* validate_input(text)
CallValidateInput ==
    /\ op.name = "text"
    /\ op' = [name |-> "validate_input", input_text |-> op.text]
    /\ ret' = validate_input(op.text)
    /\ UNCHANGED <<mem_vars, ret_ids, turn_vars, mcp_vars>>

\* validate_input on the text a validate_input call accepted and returned
CallValidateInputAgain ==
    /\ op.name = "validate_input"
    /\ ret.valid
    /\ op' = [name |-> "validate_input again", input_text |-> ret.result]
    /\ ret' = validate_input(ret.result)
    /\ UNCHANGED <<mem_vars, ret_ids, turn_vars, mcp_vars>>

\* validate_output(text, input_text)
CallValidateOutput ==
    /\ op.name = "text"
    /\ \E input_text \in {<<>>, <<"a", "a">>} :
          /\ op' = [name |-> "validate_output", response |-> op.text,
                    input_text |-> input_text]
          /\ ret' = validate_output(op.text, input_text)
    /\ UNCHANGED <<mem_vars, ret_ids, turn_vars, mcp_vars>>

GuardNext ==
    \/ CallValidateInput
    \/ CallValidateInputAgain
    \/ CallValidateOutput

GuardSpec == GuardInit /\ [][GuardNext]_vars

-----------------------------------------------------------------------------
(* Claims about the memory store, checked under MemSpec *)

\* the number of turns a load_history call asks for
TurnsAsked(limit) == IF limit = <<>> THEN window_size ELSE limit[1]

\* the messages of the current session, oldest first by id
FullHistory == [i \in 1..Len(SessionRows(rows, session_id)) |->
                   RowMessage(SessionRows(rows, session_id)[i])]

\* the number of rows of the current session, counted on the table
StoredCount == Cardinality({i \in 1..Len(rows) : rows[i].session_id = session_id})

\* C4: for N >= 1, load_history(N) returns a contiguous suffix of the
\* session's full history in insertion order (timestamp order, ties broken
\* by id), also when several messages carry the same timestamp.
C4_WindowIsSuffixOfHistory ==
    (op.name = "load_history" /\ TurnsAsked(op.limit) >= 1)
        => IsSuffix(ret, FullHistory)

\* C5: for a session holding M messages, load_history(N) returns exactly
\* min(2N, M) messages, each a row of the current session; N is window_size
\* when the limit is omitted.
C5_WindowLength ==
    op.name = "load_history" =>
        /\ Len(ret) = Min(2 * TurnsAsked(op.limit), StoredCount)
        /\ Len(ret_ids) = Len(ret)
        /\ \A i \in 1..Len(ret_ids) :
              \E j \in 1..Len(rows) :
                  /\ rows[j].id = ret_ids[i]
                  /\ rows[j].session_id = session_id
                  /\ rows[j].type = ret[i].type
                  /\ rows[j].content = ret[i].content
        /\ \A i, j \in 1..Len(ret_ids) : i # j => ret_ids[i] # ret_ids[j]

\* C5 witness: a default-limit call on a session that holds more than
\* 2 * window_size messages returns 2 * window_size of them
C5_Witness ==
    /\ op.name = "load_history"
    /\ op.limit = <<>>
    /\ StoredCount > 2 * window_size
    /\ Len(ret) = 2 * window_size

\* C6: an append of message m followed by load_history(N) with 2N >= the
\* session's message count returns a sequence whose last element is m.
C6_AppendedIsLast ==
    [][(/\ op.name = "add"
        /\ op'.name = "load_history"
        /\ 2 * TurnsAsked(op'.limit) >= StoredCount)
          => (/\ Len(ret') >= 1
              /\ ret'[Len(ret')] = [type |-> op.type, content |-> op.content])]_vars

\* C12: clear() leaves the session without rows, so that a
\* get_message_count() right after it returns 0 and a load_history() right
\* after it returns the empty sequence; clear() on a session without rows
\* changes nothing, and a second clear() after a clear() changes nothing.
C12_ClearEmptiesSession ==
    [][/\ op'.name = "clear" =>
             /\ \A i \in 1..Len(rows') : rows'[i].session_id # session_id
             /\ (\A i \in 1..Len(rows) : rows[i].session_id # session_id)
                    => rows' = rows
       /\ (op.name = "clear" /\ op'.name = "get_message_count") => ret' = 0
       /\ (op.name = "clear" /\ op'.name = "load_history") => ret' = <<>>
       /\ (op.name = "clear" /\ op'.name = "clear") => rows' = rows
      ]_vars

\* C12 witness: clear() has deleted the rows of one session and left the
\* rows of the other
C12_Witness ==
    /\ op.name = "clear"
    /\ seq_id > Len(rows)
    /\ rows # <<>>
    /\ \A i \in 1..Len(rows) : rows[i].session_id # session_id

\* C13: an append adds one row to the current session, of the type and
\* content given, and leaves every row the table had as it was, whatever
\* window_size is; load_history leaves the table as it was.
C13_AppendAddsOneRow ==
    [][/\ op'.name = "add" =>
             /\ Len(rows') = Len(rows) + 1
             /\ SubSeq(rows', 1, Len(rows)) = rows
             /\ rows'[Len(rows')].session_id = session_id
             /\ rows'[Len(rows')].type = op'.type
             /\ rows'[Len(rows')].content = op'.content
             /\ Cardinality({i \in 1..Len(rows') : rows'[i].session_id = session_id})
                  = Cardinality({i \in 1..Len(rows) : rows[i].session_id = session_id}) + 1
       /\ op'.name = "load_history" => rows' = rows
      ]_vars

\* C13 witness: a session holds more rows than the window has messages,
\* the newest of them just appended
C13_Witness ==
    /\ op.name = "add"
    /\ Cardinality({i \in 1..Len(rows) : rows[i].session_id = session_id})
          > 2 * window_size

\* the rows of the table that belong to session s
RowsOf(s) == {i \in 1..Len(rows) : rows[i].session_id = s}

\* C19: list_sessions returns one row for each session that has a stored
\* message and none for any other (a cleared session is not listed), with
\* the number of the session's messages, the smallest and the largest of
\* their timestamps, the rows ordered by last timestamp descending.
C19_ListSessions ==
    op.name = "list_sessions" =>
        /\ \A s \in Sessions :
              Cardinality({i \in 1..Len(ret) : ret[i].session_id = s})
                 = IF RowsOf(s) # {} THEN 1 ELSE 0
        /\ \A i \in 1..Len(ret) :
              /\ ret[i].session_id \in Sessions
              /\ ret[i].msg_count = Cardinality(RowsOf(ret[i].session_id))
              /\ \E k \in RowsOf(ret[i].session_id) :
                    rows[k].timestamp = ret[i].first_msg
              /\ \E k \in RowsOf(ret[i].session_id) :
                    rows[k].timestamp = ret[i].last_msg
              /\ \A k \in RowsOf(ret[i].session_id) :
                    /\ ret[i].first_msg <= rows[k].timestamp
                    /\ rows[k].timestamp <= ret[i].last_msg
        /\ \A i \in 1..Len(ret) : \A j \in 1..Len(ret) :
              i < j => ret[i].last_msg >= ret[j].last_msg

\* C19 witness: two sessions are listed, the one with the later message
\* first, it holding two messages of different seconds
C19_Witness ==
    /\ op.name = "list_sessions"
    /\ Len(ret) = 2
    /\ ret[1].last_msg > ret[2].last_msg
    /\ ret[1].msg_count = 2
    /\ ret[1].first_msg < ret[1].last_msg

\* the rows of the table that belong to another session than the current
OtherRows(tbl) == SelectSeq(tbl, LAMBDA r : r.session_id # session_id)

\* C26: add_user_message, add_ai_message, clear, get_message_count and
\* load_history leave the rows of every other session than the current
\* one as they were and do not change the current session; the count and
\* the window are taken from rows of the current session only;
\* switch_session changes the session and no row, so that every session
\* has the history it had when the instance comes back to it.
C26_OnlyCurrentSession ==
    [][/\ op'.name \in {"add", "clear", "get_message_count", "load_history"} =>
             /\ session_id' = session_id
             /\ OtherRows(rows') = OtherRows(rows)
       /\ op'.name = "get_message_count" =>
             /\ ret' = Cardinality(RowsOf(session_id))
             /\ rows' = rows
       /\ op'.name = "load_history" =>
             \A i \in 1..Len(ret_ids') :
                 \E j \in RowsOf(session_id) : rows[j].id = ret_ids'[i]
       /\ op'.name = "switch_session" =>
             /\ rows' = rows
             /\ seq_id' = seq_id
             /\ session_id' \in Sessions
      ]_vars

\* C26 witness: both sessions hold rows, the instance having switched
\* between appends, and the count returned is that of the current session
C26_Witness ==
    /\ op.name = "get_message_count"
    /\ RowsOf("s1") # {}
    /\ RowsOf("s2") # {}
    /\ ret = Cardinality(RowsOf(session_id))
    /\ ret = 2

-----------------------------------------------------------------------------
(* Claims about the turn pipeline, checked under Spec *)

\* a message sequence as (type, content) pairs
Projection(messages) ==
    [i \in 1..Len(messages) |->
        [type |-> messages[i].type, content |-> messages[i].content]]

InputAccepted == validate_input(raw_input).valid

Sanitized == validate_input(raw_input).result

JustRan(node) == trace # <<>> /\ LastOf(trace) = node

\* C1: a turn whose input validate_input rejects goes from ValidateInput
\* directly to End with one assistant error message added; no other node
\* runs and the memory store is left unchanged.
C1_RejectedInputEndsTurn ==
    (pc \notin {"idle", "validate_input"} /\ ~InputAccepted) =>
        /\ pc = "END"
        /\ trace = <<"validate_input">>
        /\ rows = rows0
        /\ Projection(state.messages) =
              <<[type |-> "human", content |-> raw_input],
                [type |-> "ai",
                 content |-> <<"[Input validation failed: ]">> \o Sanitized]>>

\* C2: in every turn that reaches SaveMemory, whatever history was
\* hydrated, the rows appended are the turn's sanitized user message and
\* the turn's final, output-validated assistant reply, never a message of
\* the hydrated history.
C2_SavedPairIsCurrentTurn ==
    (pc = "END" /\ JustRan("save_memory") /\ InputAccepted) =>
        \A i \in (Len(rows0) + 1)..Len(rows) :
            /\ rows[i].type = "human" => rows[i].content = Sanitized
            /\ rows[i].type = "ai" => rows[i].content = final_reply(state)

\* C3: every turn that completes SaveMemory adds exactly two rows to the
\* session, a human row followed by an ai row.
C3_TurnAddsHumanThenAi ==
    (pc = "END" /\ JustRan("save_memory")) =>
        /\ Len(rows) = Len(rows0) + 2
        /\ rows[Len(rows0) + 1].type = "human"
        /\ rows[Len(rows0) + 2].type = "ai"

\* C7: in a turn with valid input, the first CallModel sends the system
\* instruction, then the hydrated window in chronological order, then the
\* sanitized current user message as the last element, once.
C7_FirstCallSequence ==
    (pc = "llm_call" /\ rounds = 0 /\ InputAccepted) =>
        Projection(messages_to_send(state)) =
            <<[type |-> "system", content |-> system_prompt.content]>>
            \o hydrated
            \o <<[type |-> "human", content |-> Sanitized]>>

\* C8: for every tool call the model requests (any tool name), ExecuteTools
\* appends one tool-result message carrying the call's identifier, in
\* request order, and the turn goes on to CallModel; no tool call aborts
\* the turn.
C8_ToolResultsInOrder ==
    JustRan("tool_node") =>
        /\ pc = "llm_call"
        /\ \E k \in 1..Len(state.messages) :
              LET tool_calls == state.messages[k].tool_calls
              IN  /\ tool_calls # <<>>
                  /\ Len(state.messages) = k + Len(tool_calls)
                  /\ \A i \in 1..Len(tool_calls) :
                        /\ state.messages[k + i].type = "tool"
                        /\ state.messages[k + i].tool_call_id = tool_calls[i].id

\* the rows the turn appended to the store
Appended == SubSeq(rows, Len(rows0) + 1, Len(rows))

\* validate_output rejects what the model answered with
ReplyRejected == ~validate_output(reply, Sanitized).valid

\* C11: when validate_output rejects the model's final response,
\* ValidateOutput puts the replacement in its place and the turn goes on to
\* SaveMemory and End; the rejected text is neither the reply shown to the
\* caller nor an assistant content written to the store.
C11_RejectedReplyIsReplaced ==
    /\ (JustRan("validate_output") /\ ReplyRejected) =>
          /\ pc = "save_memory"
          /\ LastOf(state.messages) =
                AIMessage(LastOf(state.messages).id,
                          validate_output(reply, Sanitized).result, <<>>)
          /\ final_reply(state) = validate_output(reply, Sanitized).result
          /\ final_reply(state) # reply
    /\ (pc = "END" /\ JustRan("save_memory") /\ ReplyRejected) =>
          /\ result = "result"
          /\ "validate_output" \in SeqRange(trace)
          /\ final_reply(state) = validate_output(reply, Sanitized).result
          /\ final_reply(state) # reply
          /\ \A i \in 1..Len(Appended) :
                Appended[i].type = "ai" => Appended[i].content # reply

\* C11 witness: a turn has ended whose reply was rejected, with the
\* replacement stored as the assistant row
C11_Witness ==
    /\ pc = "END"
    /\ JustRan("save_memory")
    /\ ReplyRejected
    /\ Len(Appended) = 2
    /\ Appended[2].type = "ai"
    /\ Appended[2].content = validate_output(reply, Sanitized).result

\* C14: when the model invocation raises in a CallModel round, run_agent
\* returns None, the store is as it was when the turn began, and no node
\* of that turn runs any more: the next thing to run is a new turn or the
\* clear command.
C14_ModelErrorEndsTurn ==
    [][/\ (pc = "llm_call" /\ pc' \notin {"tool_node", "validate_output"}) =>
             /\ pc' = "except"
             /\ result' = "None"
             /\ rows' = rows
             /\ rows' = rows0
             /\ state' = state
             /\ "validate_output" \notin SeqRange(trace')
             /\ "save_memory" \notin SeqRange(trace')
       /\ pc = "except" =>
             \/ pc' = "validate_input" /\ trace' = <<>> /\ turns' = turns + 1
             \/ pc' = "idle" /\ trace' = trace
      ]_vars

\* C14 witness: the model raised in the second round of a turn, after a
\* round of tool calls
C14_Witness ==
    /\ pc = "except"
    /\ JustRan("llm_call")
    /\ rounds = 2
    /\ "tool_node" \in SeqRange(trace)
    /\ result = "None"

\* C23: the assistant message that leaves ValidateOutput, which is the
\* reply shown to the caller and the content handed to SaveMemory, holds
\* no match of the profanity pattern, whichever output check accepted or
\* replaced it, the cut made of an over-long response included.
C23_NoProfanityLeavesValidateOutput ==
    /\ JustRan("validate_output") =>
          /\ ~PROFANITY_search(LastOf(state.messages).content)
          /\ ~PROFANITY_search(final_reply(state))
    /\ (pc = "END" /\ JustRan("save_memory")) =>
          /\ ~PROFANITY_search(final_reply(state))
          /\ \A i \in 1..Len(Appended) :
                Appended[i].type = "ai" => ~PROFANITY_search(Appended[i].content)

\* C24: the rows the turns have stored for the session are, in insertion
\* order, human, ai, human, ai, ...: a human row first, every turn stored
\* whole; and the window load_history returns to a turn starts with a
\* human message.  So too when the final assistant content is empty.
C24_StoredTurnsAlternate ==
    /\ Len(SessionRows(rows, session_id)) % 2 = 0
    /\ \A i \in 1..Len(SessionRows(rows, session_id)) :
          SessionRows(rows, session_id)[i].type =
              IF i % 2 = 1 THEN "human" ELSE "ai"
    /\ hydrated # <<>> => hydrated[1].type = "human"

-----------------------------------------------------------------------------
(* Claims about the turn pipeline, checked under LiveSpec *)

\* how often the turn has run the node
TimesRun(node) == Cardinality({i \in 1..Len(trace) : trace[i] = node})

\* C15: a turn with a valid input, unless the model invocation raises,
\* reaches End having run ValidateOutput once and then SaveMemory once,
\* however many rounds of tool calls the model asks for first.
C15_TurnReachesEnd ==
    \A n \in 1..MaxTurns :
        (turns = n /\ pc = "validate_input" /\ InputAccepted)
            ~> \/ /\ turns = n
                  /\ pc = "END"
                  /\ TimesRun("validate_output") = 1
                  /\ TimesRun("save_memory") = 1
                  /\ trace[Len(trace) - 1] = "validate_output"
                  /\ trace[Len(trace)] = "save_memory"
               \/ /\ turns = n
                  /\ pc = "except"
                  /\ JustRan("llm_call")

-----------------------------------------------------------------------------
(* Claims about the guardrail filters, checked under GuardSpec *)

\* the positions of t that hold no whitespace, and how many there are up
\* to position i
Inked(t) == {i \in 1..Len(t) : t[i] \notin {" ", "\t"}}

InkedUpTo(t, i) == Cardinality({j \in Inked(t) : j <= i})

\* t from its first to its last character that is no whitespace
Trimmed(t) ==
    IF Inked(t) = {} THEN <<>>
    ELSE [k \in 1..(1 + (CHOOSE i \in Inked(t) : \A j \in Inked(t) : j <= i)
                      - (CHOOSE i \in Inked(t) : \A j \in Inked(t) : i <= j)) |->
            t[k - 1 + (CHOOSE i \in Inked(t) : \A j \in Inked(t) : i <= j)]]

\* s is t trimmed, with every whitespace run inside replaced by one space
IsCollapsed(s, t) ==
    /\ Cardinality(Inked(s)) = Cardinality(Inked(t))
    /\ \A i \in Inked(s) : \A j \in Inked(t) :
          InkedUpTo(s, i) = InkedUpTo(t, j) => s[i] = t[j]
    /\ \A i \in 1..Len(s) : i \notin Inked(s) =>
          /\ s[i] = " "
          /\ i - 1 \in Inked(s)
          /\ i + 1 \in Inked(s)
    /\ \A i \in Inked(s) : \A j \in Inked(t) :
          (InkedUpTo(s, i) = InkedUpTo(t, j) /\ i > 1) =>
              (i - 1 \in Inked(s) <=> j - 1 \in Inked(t))

\* the word b (in either case) stands in t between characters that are no
\* word characters
HasProfanity(t) ==
    \E i \in 1..Len(t) :
        /\ t[i] \in {"b", "B"}
        /\ (i > 1 => t[i - 1] \in {" ", "\t", "<"})
        /\ (i < Len(t) => t[i + 1] \in {" ", "\t", "<"})

\* t holds < or the pattern "n t"
HasCode(t) ==
    \/ \E i \in 1..Len(t) : t[i] = "<"
    \/ \E i \in 1..(Len(t) - 2) : t[i] = "n" /\ t[i + 1] = " " /\ t[i + 2] = "t"

\* C16: validate_input gives the reason of the first check that fails, in
\* the order: length above the maximum, empty or trimmed length below the
\* minimum, profanity, code injection; it accepts exactly the texts that
\* pass all four, and then returns the text trimmed with every whitespace
\* run inside replaced by one space.
C16_FirstFailingCheck ==
    op.name = "validate_input" =>
        LET t == op.input_text
        IN  /\ Len(t) > MAX_INPUT_LENGTH =>
                  ret = [valid |-> FALSE, result |-> <<"[Input too long]">>]
            /\ (Len(t) <= MAX_INPUT_LENGTH /\ Len(Trimmed(t)) < MIN_INPUT_LENGTH) =>
                  ret = [valid |-> FALSE,
                         result |-> <<"[Input is empty or too short]">>]
            /\ (Len(t) <= MAX_INPUT_LENGTH /\ Len(Trimmed(t)) >= MIN_INPUT_LENGTH /\ HasProfanity(t)) =>
                  ret = [valid |-> FALSE,
                         result |-> <<"[Input contains inappropriate language]">>]
            /\ (Len(t) <= MAX_INPUT_LENGTH /\ Len(Trimmed(t)) >= MIN_INPUT_LENGTH /\ ~HasProfanity(t)
                  /\ HasCode(t)) =>
                  ret = [valid |-> FALSE,
                         result |-> <<"[Input contains potentially harmful code]">>]
            /\ ret.valid <=>
                  (Len(t) <= MAX_INPUT_LENGTH /\ Len(Trimmed(t)) >= MIN_INPUT_LENGTH /\ ~HasProfanity(t)
                     /\ ~HasCode(t))
            /\ ret.valid => IsCollapsed(ret.result, t)

\* C16 witness: a text longer than the maximum that holds profanity was
\* given the length reason
C16_Witness ==
    /\ op.name = "validate_input"
    /\ Len(op.input_text) > MAX_INPUT_LENGTH
    /\ HasProfanity(op.input_text)
    /\ ret.result = <<"[Input too long]">>

\* C17: a text that validate_input accepted and returned is accepted again
\* and returned unchanged.
C17_SanitizedIsAccepted ==
    op.name = "validate_input again" =>
        ret = [valid |-> TRUE, result |-> op.input_text]

\* C18: for a response longer than MAX_OUTPUT_LENGTH validate_output
\* returns invalid with the fixed label followed by exactly the first
\* MAX_OUTPUT_LENGTH characters of the response.
C18_LongResponseIsCut ==
    (op.name = "validate_output" /\ Len(op.response) > MAX_OUTPUT_LENGTH) =>
        /\ ret.valid = FALSE
        /\ Len(ret.result) = 1 + MAX_OUTPUT_LENGTH
        /\ ret.result[1] = "[Response too long; shortened: ]"
        /\ \A i \in 1..MAX_OUTPUT_LENGTH : ret.result[1 + i] = op.response[i]

\* C18 witness: a response longer than the maximum that also holds
\* profanity came back cut
C18_Witness ==
    /\ op.name = "validate_output"
    /\ Len(op.response) = MAX_OUTPUT_LENGTH + 2
    /\ HasProfanity(op.response)
    /\ ret.result[1] = "[Response too long; shortened: ]"
    /\ Len(ret.result) = 1 + MAX_OUTPUT_LENGTH

\* t holds the negative word n
HasNegative(t) == \E i \in 1..Len(t) : t[i] = "n"

\* t holds the sensitive topic t
HasSensitive(t) == \E i \in 1..Len(t) : t[i] = "t"

\* t is the vague response a, whitespace around it aside
IsVague(t) == Trimmed(t) = <<"a">>

\* C22: validate_output gives the replacement of the first check that
\* fails, in the order: length above the maximum, profanity, negative
\* tone, sensitive topic, vague response; it accepts exactly the responses
\* that pass all five, and returns them unchanged.
C22_FirstFailingOutputCheck ==
    op.name = "validate_output" =>
        LET t == op.response
            short == Len(t) <= MAX_OUTPUT_LENGTH
        IN  /\ ~short =>
                  /\ ~ret.valid
                  /\ ret.result[1] = "[Response too long; shortened: ]"
            /\ (short /\ HasProfanity(t)) =>
                  ret = [valid |-> FALSE,
                         result |-> <<"[Response contains inappropriate language]">>]
            /\ (short /\ ~HasProfanity(t) /\ HasNegative(t)) =>
                  ret = [valid |-> FALSE,
                         result |-> <<"[Response contains negative tone]">>]
            /\ (short /\ ~HasProfanity(t) /\ ~HasNegative(t) /\ HasSensitive(t)) =>
                  ret = [valid |-> FALSE,
                         result |-> <<"[Response touches on sensitive topics]">>]
            /\ (short /\ ~HasProfanity(t) /\ ~HasNegative(t) /\ ~HasSensitive(t)
                  /\ IsVague(t)) =>
                  ret = [valid |-> FALSE,
                         result |-> <<"[I need more context to answer clearly]">>]
            /\ ret.valid <=>
                  (short /\ ~HasProfanity(t) /\ ~HasNegative(t) /\ ~HasSensitive(t)
                     /\ ~IsVague(t))
            /\ ret.valid => ret.result = t

\* C22 witness: a response within the maximum that holds profanity and a
\* negative word was given the profanity replacement
C22_Witness ==
    /\ op.name = "validate_output"
    /\ Len(op.response) <= MAX_OUTPUT_LENGTH
    /\ HasProfanity(op.response)
    /\ HasNegative(op.response)
    /\ ret.result = <<"[Response contains inappropriate language]">>

-----------------------------------------------------------------------------
(* Claims about the routing of the pipeline, checked under Spec *)

\* C20: the only transitions of a turn are validate_input to load_memory
\* or END, load_memory to llm_call, llm_call to tool_node exactly when the
\* response carries tool calls and to validate_output otherwise, tool_node
\* to llm_call, validate_output to save_memory, save_memory to END (a node
\* that raises ends the turn without a transition).  load_memory runs at
\* most once in a turn and validate_output never gets a response that
\* carries tool calls.
C20_OnlyGraphTransitions ==
    [][/\ pc = "validate_input" => pc' \in {"load_memory", "END"}
       /\ pc = "load_memory" => pc' = "llm_call"
       /\ pc = "llm_call" =>
             \/ pc' = "except" /\ state' = state
             \/ /\ pc' = "tool_node"
                /\ LastOf(state'.messages).type = "ai"
                /\ LastOf(state'.messages).tool_calls # <<>>
             \/ /\ pc' = "validate_output"
                /\ LastOf(state'.messages).type = "ai"
                /\ LastOf(state'.messages).tool_calls = <<>>
       /\ pc = "tool_node" => pc' \in {"llm_call", "except"}
       /\ pc = "validate_output" =>
             /\ pc' = "save_memory"
             /\ LastOf(state.messages).tool_calls = <<>>
       /\ pc = "save_memory" => pc' = "END"
       /\ TimesRun("load_memory") <= 1
       /\ trace' # trace =>
             /\ Len(trace') = Len(trace) + 1 \/ trace' = <<>>
             /\ trace' # <<>> => LastOf(trace') = pc
      ]_vars

\* C20 witness: a turn has gone through every node, with one round of
\* tool calls
C20_Witness ==
    /\ pc = "END"
    /\ trace = <<"validate_input", "load_memory", "llm_call", "tool_node",
                 "llm_call", "validate_output", "save_memory">>

-----------------------------------------------------------------------------
(* Claims about the rounds of a turn, checked under LoopSpec *)

-----------------------------------------------------------------------------
(* Claims about the remote tool channel, checked under McpSpec *)

RemoteCallMade == mcp_last.name # "none" /\ mcp_last.outcome.args = "ok"

\* the call's time ran out: an await it reached did not return
TimeoutExceeded ==
    \/ mcp_last.outcome.connect \in {"stdio_hang", "init_hang"}
    \/ mcp_last.outcome.list = "hang"
    \/ mcp_last.outcome.call = "hang"

\* the marker the wrapper of the tool is to produce on a timeout
ExpectedMarker ==
    CASE mcp_last.name = "StockQuote" ->
            <<"[Error: ", "get_stock", " timed out after ", "15", " seconds]">>
      [] mcp_last.name = "WebSearch" ->
            <<"[Error: ", "web_search", " timed out after ", "20", " seconds]">>
      [] OTHER ->
            <<"[Error: ", "generate_art", " timed out after ", "10", " seconds]">>

\* C9: sync_mcp_call never propagates an exception: for every outcome of
\* connect, list_tools and call_tool it returns a text, on a timeout the
\* marker naming the tool and the timeout, and that text is the content of
\* the tool-result message.
C9_AlwaysReturnsText ==
    RemoteCallMade =>
        /\ ~mcp_last.raised
        /\ mcp_last.value \in Seq(STRING)
        /\ TimeoutExceeded => mcp_last.value = ExpectedMarker
        /\ mcp_last.message.type = "tool"
        /\ mcp_last.message.content = mcp_last.value
        /\ mcp_last.message.tool_call_id = <<1, mcp_calls>>

\* C9 witness: a web search whose call_tool does not return in time comes
\* back as the marker
C9_Witness ==
    /\ RemoteCallMade
    /\ mcp_last.name = "WebSearch"
    /\ mcp_last.outcome.call = "hang"
    /\ mcp_last.message.content =
          <<"[Error: ", "web_search", " timed out after ", "20", " seconds]">>

\* C10: connect() is not invoked before the first remote call, no call
\* invokes connect() once a connection exists, and at most one connection
\* to the tool server is open at a time.
C10_OneLazyConnection ==
    /\ mcp_calls = 0 => (mcp_connects = 0 /\ mcp_open = 0)
    /\ mcp_open <= 1
    /\ (mcp_last.name # "none" /\ mcp_last.open_before >= 1)
          => mcp_connects = mcp_last.connects_before

\* the call made last sent a request on the client's session: list_tools
\* after its own connect(), or call_tool
RequestSent ==
    /\ RemoteCallMade
    /\ \/ mcp_last.session_before # "None"
       \/ mcp_last.outcome.connect = "ok"

\* C25: a remote tool request is sent only on a session that connect()
\* has initialized: a call that finds a session which a failed or timed
\* out connect() left uninitialized connects again before it sends.
C25_RequestsOnInitializedSession ==
    /\ RequestSent => mcp_session = "initialized"
    /\ (RemoteCallMade /\ mcp_last.session_before = "created")
          => mcp_connects > mcp_last.connects_before

=============================================================================
